---- MODULE Spec2Model ----
(***************************************************************************)
(* Model of internal/service/monitor_service.go: the MonitorService        *)
(* scheduler loop (Start), one monitoring pass (monitorHealthAndMetrics),  *)
(* the per-target goroutine it launches, and the dispatcher (handleAlert). *)
(*                                                                         *)
(* float64 quantities (monitor.Metrics fields) are carried as integers in  *)
(* tenths: 5 stands for 0.5, 400 for 40.0.  Products and quotients are     *)
(* compared exactly (cross-multiplied); float64 rounding is not modelled.  *)
(***************************************************************************)
EXTENDS Integers, Sequences, FiniteSets, TLC

\* ------------------------------------------------------------------ bounds
MaxTargets == 2
MaxPasses == 2

\* ------------------------------------------------------- input domains
\* The url lists a configuration may hold: the prefixes of Urls of at most
\* MaxTargets entries.  Urls repeats its first entry, so a list of two holds
\* a duplicate.
Urls == [k \in 1..MaxTargets |-> IF k <= 2 THEN "a" ELSE "b"]
UrlLists == {SubSeq(Urls, 1, n) : n \in 0..MaxTargets}

CpuThresholds == {80}
JvmThresholds == {75}

Configs ==
  [UrlsToMonitor : UrlLists,
   CpuUsageWarnThreshold : CpuThresholds,
   JvmUsageWarnThreshold : JvmThresholds,
   IsDesktopAlertsEnabled : BOOLEAN,
   IsEmailAlertsEnabled : BOOLEAN]

\* Results of monitor.GetHealthStatus: (status, err).
HealthErrors == {"ErrNoActuatorSupport", "ErrNotResponding", "other"}
Statuses == {"UP", "DOWN", "UNKNOWN"}
HealthResults ==
  {[status |-> "", err |-> e] : e \in HealthErrors} \cup
  {[status |-> s, err |-> "nil"] : s \in Statuses}

\* Results of monitor.GetMetrics: (metrics, err); fields in tenths.
\* (MemoryUsed, MemoryTotal) pairs: 75% and 80% of a positive total, a zero
\* total and a negative total.
MemoryPairs == {<<30, 40>>, <<32, 40>>, <<32, 0>>, <<-10, -10>>}
MetricsValues ==
  {[CpuUsage |-> u, CpuCount |-> 20, MemoryUsed |-> p[1], MemoryTotal |-> p[2]] :
     u \in {5, 400, 405}, p \in MemoryPairs}
ZeroMetrics == [CpuUsage |-> 0, CpuCount |-> 0, MemoryUsed |-> 0, MemoryTotal |-> 0]
MetricsResults ==
  {[m |-> ZeroMetrics, err |-> "err"]} \cup
  {[m |-> v, err |-> "nil"] : v \in MetricsValues}

\* One result per branch of the goroutine, for the runs of the whole service.
HealthSample ==
  {[status |-> "", err |-> "ErrNotResponding"],
   [status |-> "DOWN", err |-> "nil"], [status |-> "UP", err |-> "nil"]}
MetricsSample ==
  {[m |-> ZeroMetrics, err |-> "err"],
   [m |-> [CpuUsage |-> 405, CpuCount |-> 20, MemoryUsed |-> 30, MemoryTotal |-> 40],
    err |-> "nil"],
   [m |-> [CpuUsage |-> 5, CpuCount |-> 20, MemoryUsed |-> 30, MemoryTotal |-> 40],
    err |-> "nil"]}

NoHealth == [status |-> "", err |-> "none"]
NoMetrics == [m |-> ZeroMetrics, err |-> "none"]

\* ------------------------------------------------------------------ state
VARIABLES
  config,   \* ms.config, set by NewMonitorService
  schedPc,  \* position of the Start goroutine
  pass,     \* number of monitorHealthAndMetrics calls made so far
  i,        \* loop index of the range loop (0-based, as in the source)
  probe,    \* probe[p]: result of hasInternetConnection in pass p
  slept,    \* slept[p]: number of time.Sleep(6s) taken in pass p
  tasks,    \* tasks[<<p, k>>]: the goroutine launched in pass p for index k
  last,     \* what the goroutine that ran most recently saw and did
  mailDialer  \* the gomail.Dialer that ms.config.MailDialer points to

vars == <<config, schedPc, pass, i, probe, slept, tasks, last, mailDialer>>

Passes == 1..MaxPasses
TaskIds == Passes \X (0..(MaxTargets - 1))

NoTask == [st |-> "none", decisions |-> 0]
NoEval ==
  [health |-> NoHealth, metrics |-> NoMetrics,
   decisions |-> <<>>, calls |-> <<>>]

\* --------------------------------------------------------- pure functions
Call(op, arg, ok) == [op |-> op, arg |-> arg, ok |-> ok]
Decision(msg, isAlert, sendMail) ==
  [msg |-> msg, isAlert |-> isAlert, sendMail |-> sendMail]

\* variant: the gate does not return
NeverSkipPass(connected) == FALSE

\* line 59: the pass is skipped when the probe fails
SkipPass(connected) == ~connected

\* line 72
HealthFailed(h) == h.err # "nil"

\* variant: only the status DOWN is taken for unhealthy
StatusDown(status) == status = "DOWN"

\* line 95
StatusNotUp(status) == status # "UP"

\* line 104
MetricsFailed(r) == r.err # "nil"

\* variant: >= in place of >
exceededCpuUsageOrEqual(m, cfg) ==
  m.CpuUsage * m.CpuCount >= cfg.CpuUsageWarnThreshold * 100

\* variant: the product scaled by 100 before the comparison
exceededCpuUsagePercent(m, cfg) ==
  m.CpuUsage * m.CpuCount * 100 > cfg.CpuUsageWarnThreshold * 100

\* line 112: CpuUsage * CpuCount > float64(CpuUsageWarnThreshold)
\* (tenths * tenths = hundredths)
exceededCpuUsageThreshold(m, cfg) ==
  m.CpuUsage * m.CpuCount > cfg.CpuUsageWarnThreshold * 100

\* variant: the quotient without the MemoryTotal > 0.0 guard: x/0 is +Inf for x > 0
\* and NaN for x = 0, and a negative divisor turns the comparison round
exceededJvmUsageUnguarded(m, cfg) ==
  IF m.MemoryTotal = 0 THEN m.MemoryUsed > 0
  ELSE IF m.MemoryTotal > 0
  THEN m.MemoryUsed * 100 > cfg.JvmUsageWarnThreshold * m.MemoryTotal
  ELSE m.MemoryUsed * 100 < cfg.JvmUsageWarnThreshold * m.MemoryTotal

\* lines 113-114: MemoryTotal > 0.0 && (MemoryUsed/MemoryTotal)*100 > float64(thr)
exceededJvmUsageThreshold(m, cfg) ==
  m.MemoryTotal > 0 /\ m.MemoryUsed * 100 > cfg.JvmUsageWarnThreshold * m.MemoryTotal

\* line 116
ThresholdExceeded(m, cfg) ==
  exceededCpuUsageThreshold(m, cfg) \/ exceededJvmUsageThreshold(m, cfg)

\* variant: the last branch (any other error) is not mail-worthy
HealthErrorDecisionNoMail(h) ==
  IF h.err = "ErrNoActuatorSupport" THEN Decision("NoActuatorSupport", TRUE, TRUE)
  ELSE IF h.err = "ErrNotResponding" THEN Decision("NoResponse", TRUE, TRUE)
  ELSE Decision("HealthFailed", TRUE, FALSE)

\* lines 73-92: the decision taken on a health error
HealthErrorDecision(h) ==
  IF h.err = "ErrNoActuatorSupport" THEN Decision("NoActuatorSupport", TRUE, TRUE)
  ELSE IF h.err = "ErrNotResponding" THEN Decision("NoResponse", TRUE, TRUE)
  ELSE Decision("HealthFailed", TRUE, TRUE)

\* line 99
StatusDecision(status) == Decision("HealthStatus", TRUE, TRUE)

\* variant: a metrics error is escalated like a health error
MetricsErrorEscalated(r) == Decision("MetricsFailed", TRUE, TRUE)

\* line 108
MetricsErrorDecision(r) == Decision("MetricsFailed", FALSE, FALSE)

\* variant: a threshold breach alerts on the desktop only
ExceededDecisionDesktopOnly(m) == Decision("Exceeded", TRUE, FALSE)

\* line 120
ExceededDecision(m) == Decision("Exceeded", TRUE, TRUE)

\* variant: the routine branch only logs
NoRoutineDecision(m) == <<>>

\* line 128
RoutineDecisions(m) == <<Decision("Routine", FALSE, FALSE)>>

\* variant: the sound does not depend on the notification's result
PlaysSoundOnAlert(isAlert, notifyOk) == isAlert

\* line 147: gst-play runs in the else-if branch of the critical notify-send
PlaysSound(isAlert, notifyOk) == isAlert /\ notifyOk

\* variant: sendMail is ignored
MailEnabled(cfg, sendMail) == cfg.IsEmailAlertsEnabled

\* line 153
MailWanted(cfg, sendMail) == cfg.IsEmailAlertsEnabled /\ sendMail

\* lines 139-151: the commands handleAlert runs for the desktop channel
DesktopCalls(cfg, isAlert, notifyOk, soundOk) ==
  IF ~cfg.IsDesktopAlertsEnabled THEN <<>>
  ELSE <<Call("notify-send", IF isAlert THEN "critical" ELSE "normal", notifyOk)>>
       \o (IF PlaysSound(isAlert, notifyOk)
           THEN <<Call("gst-play", "", soundOk)>> ELSE <<>>)

\* variant: a failed sendEmail is tried once more
MailCallsRetried(cfg, sendMail, mailOk) ==
  IF MailWanted(cfg, sendMail)
  THEN <<Call("sendEmail", "", mailOk)>>
       \o (IF mailOk THEN <<>> ELSE <<Call("sendEmail", "", TRUE)>>)
  ELSE <<>>

\* lines 153-158
MailCalls(cfg, sendMail, mailOk) ==
  IF MailWanted(cfg, sendMail) THEN <<Call("sendEmail", "", mailOk)>> ELSE <<>>

\* variant: a failed notify-send ends the dispatch
handleAlertUntilFailure(cfg, d, env) ==
  DesktopCalls(cfg, d.isAlert, env.notifyOk, env.soundOk)
  \o (IF cfg.IsDesktopAlertsEnabled /\ ~env.notifyOk
      THEN <<>> ELSE MailCalls(cfg, d.sendMail, env.mailOk))

\* lines 138-159; env holds the outcome of each external command
handleAlert(cfg, d, env) ==
  DesktopCalls(cfg, d.isAlert, env.notifyOk, env.soundOk)
  \o MailCalls(cfg, d.sendMail, env.mailOk)

\* the handleAlert call that ends each branch of the goroutine
Dispatch(cfg, ds, env) ==
  IF ds = <<>> THEN <<>> ELSE handleAlert(cfg, ds[1], env)

\* lines 71-128: what the goroutine fetches (the metrics result it saw is
\* NoMetrics when GetMetrics is not called) and the decisions it hands to
\* handleAlert
Decide(cfg, h, r) ==
  LET hcall == <<Call("GetHealthStatus", "", h.err = "nil")>>
      mcall == <<Call("GetMetrics", "", r.err = "nil")>>
  IN  IF HealthFailed(h)
      THEN [metrics |-> NoMetrics, fetches |-> hcall,
            decisions |-> <<HealthErrorDecision(h)>>]
      ELSE IF StatusNotUp(h.status)
      THEN [metrics |-> NoMetrics, fetches |-> hcall,
            decisions |-> <<StatusDecision(h.status)>>]
      ELSE IF MetricsFailed(r)
      THEN [metrics |-> r, fetches |-> hcall \o mcall,
            decisions |-> <<MetricsErrorDecision(r)>>]
      ELSE IF ThresholdExceeded(r.m, cfg)
      THEN [metrics |-> r, fetches |-> hcall \o mcall,
            decisions |-> <<ExceededDecision(r.m)>>]
      ELSE [metrics |-> r, fetches |-> hcall \o mcall,
            decisions |-> RoutineDecisions(r.m)]

\* lines 67-129: the goroutine body, d being what it fetched and decided:
\* the external calls it makes, in order
Dispatched(cfg, d, env) ==
  [metrics |-> d.metrics, decisions |-> d.decisions,
   calls |-> d.fetches \o Dispatch(cfg, d.decisions, env)]

\* ---------------------------------------------------------------- actions
Init ==
  /\ config \in Configs
  /\ schedPc = "init"
  /\ pass = 0
  /\ i = 0
  /\ probe = [p \in Passes |-> "none"]
  /\ slept = [p \in Passes |-> 0]
  /\ tasks = [id \in TaskIds |-> NoTask]
  /\ last = NoEval
  /\ mailDialer = [TLSConfig |-> "initial"]

NumUrls == Len(config.UrlsToMonitor)

\* variant: the first pass waits for the first tick
StartAtFirstTick ==
  /\ schedPc = "init"
  /\ pass = 0
  /\ schedPc' = "idle"
  /\ UNCHANGED <<config, pass, i, probe, slept, tasks, last, mailDialer>>

\* Start, lines 45-48: the first pass is entered at once
Start ==
  /\ schedPc = "init"
  /\ schedPc' = "probe"
  /\ pass' = 1
  /\ UNCHANGED <<config, i, probe, slept, tasks, last, mailDialer>>

\* lines 59-64 and 173-176: the connectivity gate
Probe ==
  /\ schedPc = "probe"
  /\ \E connected \in BOOLEAN :
       /\ probe' = [probe EXCEPT ![pass] = IF connected THEN "ok" ELSE "fail"]
       /\ schedPc' = IF SkipPass(connected) \/ NumUrls = 0 THEN "idle" ELSE "loop"
  /\ i' = 0
  /\ UNCHANGED <<config, pass, slept, tasks, last, mailDialer>>

\* variant: the delay follows every launch
PacingAfterEach(k) == NumUrls > 1

\* line 132
PacingDue(k) == NumUrls > 1 /\ k = NumUrls - 1

\* variant: an iteration waits until no goroutine is running
LaunchAfterJoin ==
  /\ schedPc = "loop"
  /\ i < NumUrls
  /\ \A id \in TaskIds : tasks[id].st # "running"
  /\ tasks' = [tasks EXCEPT ![<<pass, i>>] =
                 [st |-> "running", decisions |-> 0]]
  /\ IF PacingDue(i)
     THEN schedPc' = "sleep" /\ i' = i
     ELSE /\ i' = i + 1
          /\ schedPc' = IF i + 1 < NumUrls THEN "loop" ELSE "idle"
  /\ UNCHANGED <<config, pass, probe, slept, last, mailDialer>>

\* lines 66-67, 129: one iteration of the range loop starts a goroutine
Launch ==
  /\ schedPc = "loop"
  /\ i < NumUrls
  /\ tasks' = [tasks EXCEPT ![<<pass, i>>] =
                 [st |-> "running", decisions |-> 0]]
  /\ IF PacingDue(i)
     THEN schedPc' = "sleep" /\ i' = i
     ELSE /\ i' = i + 1
          /\ schedPc' = IF i + 1 < NumUrls THEN "loop" ELSE "idle"
  /\ UNCHANGED <<config, pass, probe, slept, last, mailDialer>>

\* lines 132-134: time.Sleep(6 * time.Second), then the loop goes on
PacingSleep ==
  /\ schedPc = "sleep"
  /\ slept' = [slept EXCEPT ![pass] = @ + 1]
  /\ i' = i + 1
  /\ schedPc' = IF i + 1 < NumUrls THEN "loop" ELSE "idle"
  /\ UNCHANGED <<config, pass, probe, tasks, last, mailDialer>>

\* variant: a tick starts a pass of its own while the last one is at work
TickOverlapping ==
  /\ schedPc \in {"idle", "loop", "sleep"}
  /\ pass < MaxPasses
  /\ pass' = pass + 1
  /\ schedPc' = "probe"
  /\ UNCHANGED <<config, i, probe, slept, tasks, last, mailDialer>>

\* lines 53-54: a tick of ticker.C starts the next pass
Tick ==
  /\ schedPc = "idle"
  /\ pass < MaxPasses
  /\ pass' = pass + 1
  /\ schedPc' = "probe"
  /\ UNCHANGED <<config, i, probe, slept, tasks, last, mailDialer>>

\* The results the environment can hand to one goroutine: GetMetrics has a
\* result only when it is called, and so has each external command.
MetricsOutcomes(h, M) ==
  IF HealthFailed(h) \/ StatusNotUp(h.status) THEN {NoMetrics} ELSE M

AllOk == [notifyOk |-> TRUE, soundOk |-> TRUE, mailOk |-> TRUE]

EnvOutcomes(cfg, ds) ==
  IF ds = <<>> THEN {AllOk}
  ELSE {env \in [notifyOk : BOOLEAN, soundOk : BOOLEAN, mailOk : BOOLEAN] :
          /\ cfg.IsDesktopAlertsEnabled \/ env.notifyOk
          /\ (cfg.IsDesktopAlertsEnabled /\ PlaysSound(ds[1].isAlert, env.notifyOk))
             \/ env.soundOk
          /\ MailWanted(cfg, ds[1].sendMail) \/ env.mailOk}

\* line 169: sendEmail assigns the TLSConfig field of the shared dialer
TLSConfigSet(d) == [d EXCEPT !.TLSConfig = "InsecureSkipVerify"]

\* variant: a goroutine whose health fetch failed ends the goroutines of
\* its pass that are still running
FinishAborting(id, h, e) ==
  /\ last' = [health |-> h,
              metrics |-> e.metrics, decisions |-> e.decisions, calls |-> e.calls]
  /\ tasks' = [o \in TaskIds |->
                IF o = id \/ (HealthFailed(h) /\ o[1] = id[1] /\ tasks[o].st = "running")
                THEN [st |-> "done", decisions |-> IF o = id THEN Len(e.decisions) ELSE 0]
                ELSE tasks[o]]

\* the goroutine returns (lines 78, 86, 92, 100, 109, 121, 129)
Finish(id, h, e) ==
  /\ last' = [health |-> h,
              metrics |-> e.metrics, decisions |-> e.decisions, calls |-> e.calls]
  /\ tasks' = [tasks EXCEPT ![id] = [st |-> "done", decisions |-> Len(e.decisions)]]

\* lines 153-154: the decision is handed to sendEmail
Mails(cfg, d) == d.decisions # <<>> /\ MailWanted(cfg, d.decisions[1].sendMail)

\* The whole goroutine in one step.  Where it sends mail it assigns the
\* dialer's TLSConfig (line 169); every assignment stores an equal value and
\* the outcome of DialAndSend is any of its results, so the interleavings of
\* two sendEmail calls add no outcome to those of the single step.
Run(id, h, r, d) ==
  /\ \E env \in EnvOutcomes(config, d.decisions) :
       Finish(id, h, Dispatched(config, d, env))
  /\ mailDialer' = IF Mails(config, d) THEN TLSConfigSet(mailDialer) ELSE mailDialer

\* lines 67-129 with the handleAlert call inlined: a launched goroutine runs,
\* GetHealthStatus answering from H and GetMetrics from M
EvaluateWith(H, M) ==
  \E id \in TaskIds :
    /\ tasks[id].st = "running"
    /\ \E h \in H : \E r \in MetricsOutcomes(h, M) :
         Run(id, h, r, Decide(config, h, r))
    /\ UNCHANGED <<config, schedPc, pass, i, probe, slept>>

Evaluate == EvaluateWith(HealthSample, MetricsSample)

EvaluateAny == EvaluateWith(HealthResults, MetricsResults)

\* The service: the scheduler loop and its goroutines, the targets answering
\* from the sample results.
Next == Start \/ Probe \/ Launch \/ PacingSleep \/ Tick \/ Evaluate

Spec == Init /\ [][Next]_vars

\* The service with one configured target, the target answering with any of
\* the results (no pacing delay is due with one target).
InitEval == Init /\ Len(config.UrlsToMonitor) = 1

NextEval == Start \/ Probe \/ Launch \/ Tick \/ EvaluateAny

SpecEval == InitEval /\ [][NextEval]_vars

\* The service with the steps of the Start goroutine taken whenever they are
\* due: the probe returns, a go statement does not block, time.Sleep ends.
\* Nothing is assumed of the launched goroutines (GetHealthStatus and
\* GetMetrics may take their whole timeout, a command may hang) nor of the
\* arrival of ticks.  The configurations are those with desktop alerts off,
\* the goroutines then running no desktop command.
InitLive == Init /\ ~config.IsDesktopAlertsEnabled

SchedulerFairness ==
  WF_vars(Start) /\ WF_vars(Probe) /\ WF_vars(Launch) /\ WF_vars(PacingSleep)

SpecLive == InitLive /\ [][Next]_vars /\ SchedulerFairness

\* The goroutine in two steps where it sends mail: up to the assignment of
\* line 169, and the DialAndSend call of line 170, which reads the field.
\* lines 67-129 for a goroutine that sends no mail
EvaluateUnmailed ==
  \E id \in TaskIds :
    /\ tasks[id].st = "running"
    /\ \E h \in HealthSample : \E r \in MetricsOutcomes(h, MetricsSample) :
         /\ ~Mails(config, Decide(config, h, r))
         /\ Run(id, h, r, Decide(config, h, r))
    /\ UNCHANGED <<config, schedPc, pass, i, probe, slept>>

\* lines 67-122, 139-154, 161-169: the goroutine fetches, decides, runs the
\* desktop commands, enters sendEmail and assigns mailDialer.TLSConfig
RunToSendEmail(id, h, d) ==
  /\ Mails(config, d)
  /\ \E env \in EnvOutcomes(config, d.decisions) :
       /\ env.mailOk
       /\ tasks' = [tasks EXCEPT ![id] =
                      [st |-> "mailing", decisions |-> 0,
                       health |-> h, decided |-> d, env |-> env]]
  /\ mailDialer' = TLSConfigSet(mailDialer)

EnterSendEmail ==
  \E id \in TaskIds :
    /\ tasks[id].st = "running"
    /\ \E h \in HealthSample : \E r \in MetricsOutcomes(h, MetricsSample) :
         RunToSendEmail(id, h, Decide(config, h, r))
    /\ UNCHANGED <<config, schedPc, pass, i, probe, slept, last>>

\* line 170 and lines 155-157, 159: DialAndSend reads the dialer and returns,
\* then the goroutine returns
DialAndSend ==
  \E id \in TaskIds :
    /\ tasks[id].st = "mailing"
    /\ \E ok \in BOOLEAN :
         Finish(id, tasks[id].health,
                Dispatched(config, tasks[id].decided,
                           [tasks[id].env EXCEPT !.mailOk = ok]))
    /\ UNCHANGED <<config, schedPc, pass, i, probe, slept, mailDialer>>

InitMail == Init /\ config.IsEmailAlertsEnabled

NextMail ==
  Start \/ Probe \/ Launch \/ PacingSleep \/ Tick
  \/ EvaluateUnmailed \/ EnterSendEmail \/ DialAndSend

SpecMail == InitMail /\ [][NextMail]_vars

\* ------------------------------------------------------------------ claims
\* What the goroutine that ran most recently did.
Ran == last # NoEval
CallCount(op) == Cardinality({k \in 1..Len(last.calls) : last.calls[k].op = op})
OneDecision(isAlert, sendMail) ==
  /\ Len(last.decisions) = 1
  /\ last.decisions[1].isAlert = isAlert
  /\ last.decisions[1].sendMail = sendMail
HealthUp == last.health.err = "nil" /\ last.health.status = "UP"
MetricsOk == HealthUp /\ last.metrics.err = "nil"

\* C1: when GetHealthStatus returns an error (no actuator support, not
\* responding, or any other), GetMetrics is not called in that evaluation and
\* the one decision handed to handleAlert has isAlert = true, sendMail = true.
C1_HealthErrorIsCritical ==
  (Ran /\ last.health.err \in HealthErrors) =>
    /\ CallCount("GetMetrics") = 0
    /\ last.metrics = NoMetrics
    /\ OneDecision(TRUE, TRUE)

C1_Witness ==
  /\ last.health.err = "other"
  /\ OneDecision(TRUE, TRUE)
  /\ CallCount("GetHealthStatus") = 1
  /\ CallCount("GetMetrics") = 0

\* C2: a health status other than Up gives a critical, mail-worthy decision
\* without a GetMetrics call; GetMetrics is called only after GetHealthStatus
\* succeeded with status Up.
C2_NotUpIsCritical ==
  /\ (Ran /\ last.health.err = "nil" /\ last.health.status # "UP") =>
       (CallCount("GetMetrics") = 0 /\ OneDecision(TRUE, TRUE))
  /\ \A k \in 1..Len(last.calls) :
       last.calls[k].op = "GetMetrics" =>
         /\ HealthUp
         /\ k = 2
         /\ last.calls[1].op = "GetHealthStatus" /\ last.calls[1].ok

C2_Witness ==
  /\ last.health.err = "nil" /\ last.health.status = "UNKNOWN"
  /\ OneDecision(TRUE, TRUE)
  /\ CallCount("GetMetrics") = 0

\* C3: health Up and a GetMetrics error give the decision isAlert = false,
\* sendMail = false, and it is the metrics-failure report, not an outcome of
\* the threshold test.
C3_MetricsErrorIsInformational ==
  (Ran /\ HealthUp /\ last.metrics.err = "err") =>
    /\ OneDecision(FALSE, FALSE)
    /\ last.decisions[1].msg = "MetricsFailed"

C3_Witness ==
  /\ HealthUp /\ last.metrics.err = "err"
  /\ CallCount("GetMetrics") = 1
  /\ OneDecision(FALSE, FALSE)
  /\ config.IsEmailAlertsEnabled /\ CallCount("sendEmail") = 0

\* C4: a pass whose connectivity probe failed starts no goroutine (so no
\* health or metrics fetch and no notify, sound or mail call belongs to it)
\* and takes no pacing delay.
C4_FailedProbeSkipsPass ==
  \A p \in Passes :
    probe[p] = "fail" =>
      /\ \A id \in TaskIds : id[1] = p => tasks[id] = NoTask
      /\ slept[p] = 0
      /\ (p = pass => schedPc = "idle")

C4_Witness ==
  /\ probe[1] = "fail" /\ probe[2] = "ok"
  /\ NumUrls = 2 /\ schedPc = "idle"
  /\ \A id \in TaskIds : id[1] = 1 => tasks[id] = NoTask
  /\ \A id \in TaskIds : id[1] = 2 => tasks[id].st = "done"
  /\ slept[1] = 0 /\ slept[2] = 1

\* A pass p has returned to the ticker.
PassOver(p) == p < pass \/ (p = pass /\ schedPc = "idle")
Launched(p, k) == tasks[<<p, k>>].st # "none"
DecidesOnce ==
  /\ \A id \in TaskIds :
       /\ tasks[id].st = "done" => tasks[id].decisions = 1
       /\ tasks[id].st # "done" => tasks[id].decisions = 0
  /\ Ran => Len(last.decisions) = 1

\* C5 as stated: in every cycle, every entry of the target list has its
\* evaluation launched, and a finished evaluation made one handleAlert call.
C5_OnePerTargetEveryCycle ==
  /\ \A p \in Passes : \A k \in 0..(MaxTargets - 1) :
       (PassOver(p) /\ k < NumUrls) => Launched(p, k)
  /\ DecidesOnce

\* C5 amended: in every cycle that passed the connectivity gate, every entry
\* of the target list (duplicates counted separately) has its evaluation
\* launched, no other evaluation belongs to the cycle, and an evaluation that
\* finished made exactly one handleAlert call, on every path; a cycle whose
\* probe failed has no evaluation and no decision.
C5_OnePerTargetPerGatedCycle ==
  /\ \A p \in Passes : \A k \in 0..(MaxTargets - 1) :
       /\ (PassOver(p) /\ probe[p] = "ok" /\ k < NumUrls) => Launched(p, k)
       /\ Launched(p, k) => (probe[p] = "ok" /\ k < NumUrls /\ p <= pass)
  /\ DecidesOnce

C5_Witness ==
  /\ config.UrlsToMonitor = <<"a", "a">>
  /\ pass = 2 /\ schedPc = "idle"
  /\ \A id \in TaskIds : tasks[id] = [st |-> "done", decisions |-> 1]
  /\ last.decisions[1].msg = "Routine"

\* C6: with health Up and metrics fetched, the decision is critical and
\* mail-worthy iff CpuUsage * CpuCount > CPU threshold or (MemoryTotal > 0 and)
\* MemoryUsed / MemoryTotal * 100 > JVM threshold; otherwise, values equal to
\* a threshold included, it is the routine report with both flags false.
C6_Breach ==
  LET m == last.metrics.m
  IN  \/ m.CpuUsage * m.CpuCount > 100 * config.CpuUsageWarnThreshold
      \/ /\ m.MemoryTotal > 0
         /\ 100 * m.MemoryUsed > config.JvmUsageWarnThreshold * m.MemoryTotal

C6_ThresholdDecision ==
  (Ran /\ MetricsOk) =>
    IF C6_Breach
    THEN OneDecision(TRUE, TRUE) /\ last.decisions[1].msg = "Exceeded"
    ELSE OneDecision(FALSE, FALSE) /\ last.decisions[1].msg = "Routine"

\* both values exactly at their thresholds: 40.0 * 2 = 80 and 3.0/4.0 = 75%
C6_Witness ==
  /\ MetricsOk
  /\ last.metrics.m =
       [CpuUsage |-> 400, CpuCount |-> 20, MemoryUsed |-> 30, MemoryTotal |-> 40]
  /\ config.CpuUsageWarnThreshold = 80 /\ config.JvmUsageWarnThreshold = 75
  /\ OneDecision(FALSE, FALSE)

C7_Case ==
  /\ Ran /\ MetricsOk
  /\ config.CpuUsageWarnThreshold = 80
  /\ last.metrics.m.CpuUsage = 5 /\ last.metrics.m.CpuCount = 20

\* C7 as stated: with CPU threshold 80, CpuUsage = 0.5 and CpuCount = 2, an
\* Up target gets a critical decision whatever the memory values are.
C7_HalfLoadOnTwoCoresIsCritical == C7_Case => OneDecision(TRUE, TRUE)

\* C7 amended: with CPU threshold 80, CpuUsage = 0.5 and CpuCount = 2 the
\* value compared is 0.5 * 2 = 1.0, which does not exceed 80, so the decision
\* is critical iff the memory check is exceeded (MemoryTotal > 0 and
\* MemoryUsed / MemoryTotal * 100 > JVM threshold), and routine otherwise.
C7_HalfLoadOnTwoCoresLeavesMemoryCheck ==
  C7_Case =>
    LET m == last.metrics.m
        mem == /\ m.MemoryTotal > 0
               /\ 100 * m.MemoryUsed > config.JvmUsageWarnThreshold * m.MemoryTotal
    IN  OneDecision(mem, mem)

C7_Witness ==
  /\ C7_Case
  /\ last.metrics.m.MemoryUsed = 30 /\ last.metrics.m.MemoryTotal = 40
  /\ OneDecision(FALSE, FALSE)
  /\ last.decisions[1].msg = "Routine"

\* C8: with health Up, metrics fetched and MemoryTotal <= 0 the evaluation
\* still ends in its one decision, which is critical iff
\* CpuUsage * CpuCount > CPU threshold, whatever MemoryUsed is.
C8_NoMemoryTotalLeavesCpuCheck ==
  (Ran /\ MetricsOk /\ last.metrics.m.MemoryTotal <= 0) =>
    LET m == last.metrics.m
        cpu == m.CpuUsage * m.CpuCount > 100 * config.CpuUsageWarnThreshold
    IN  OneDecision(cpu, cpu)

C8_Witness ==
  /\ MetricsOk
  /\ last.metrics.m.MemoryTotal = 0 /\ last.metrics.m.MemoryUsed = 32
  /\ last.metrics.m.CpuUsage = 5
  /\ OneDecision(FALSE, FALSE)

\* C9: for a dispatched decision, notify-send runs once if desktop alerts are
\* enabled and neither it nor gst-play runs if they are disabled; sendEmail
\* runs once if email alerts are enabled and sendMail is true, never otherwise.
C9_ChannelsFollowFlags ==
  (Ran /\ Len(last.decisions) = 1) =>
    /\ CallCount("notify-send") = IF config.IsDesktopAlertsEnabled THEN 1 ELSE 0
    /\ ~config.IsDesktopAlertsEnabled => CallCount("gst-play") = 0
    /\ CallCount("sendEmail") =
         IF config.IsEmailAlertsEnabled /\ last.decisions[1].sendMail THEN 1 ELSE 0

C9_Witness ==
  /\ ~config.IsDesktopAlertsEnabled /\ config.IsEmailAlertsEnabled
  /\ OneDecision(TRUE, TRUE)
  /\ CallCount("notify-send") = 0 /\ CallCount("gst-play") = 0
  /\ CallCount("sendEmail") = 1

\* C10: gst-play runs only for a critical decision with desktop alerts
\* enabled, and only directly after the critical notify-send of that decision
\* returned without error.
C10_SoundAfterNotify ==
  \A k \in 1..Len(last.calls) :
    last.calls[k].op = "gst-play" =>
      /\ config.IsDesktopAlertsEnabled
      /\ Len(last.decisions) = 1 /\ last.decisions[1].isAlert
      /\ k > 1
      /\ last.calls[k - 1] = Call("notify-send", "critical", TRUE)
      /\ CallCount("gst-play") = 1

C10_Witness ==
  /\ CallCount("gst-play") = 1
  /\ \E k \in 1..Len(last.calls) :
       last.calls[k] = Call("notify-send", "critical", TRUE)
  /\ last.decisions[1].isAlert

\* C11: after construction no evaluation or dispatch step writes to the
\* configuration or to an object reachable from it, the shared mail dialer
\* included, so that no two goroutines are ever at conflicting accesses: here,
\* no two goroutines are at once between the assignment of the dialer's
\* TLSConfig (line 169) and the return of the DialAndSend that reads it.
InSendEmail == {id \in TaskIds : tasks[id].st = "mailing"}

C11_NoConflictingAccess == Cardinality(InSendEmail) <= 1

\* C12: in a pass that passed the gate, whatever becomes of one target's
\* goroutine (a health or metrics error, a failed notify, sound or mail
\* command, or never finishing), the goroutine of every other configured
\* target is launched all the same, a goroutine that finishes leaves every
\* other goroutine and the scheduler loop as they were, and its one decision
\* is the one its own health and metrics results and the configuration give.
LaunchedUpTo(p) ==
  IF p < pass \/ schedPc = "idle" THEN NumUrls
  ELSE IF schedPc = "sleep" THEN i + 1 ELSE i

Finishes(id) == tasks[id].st = "running" /\ tasks'[id].st = "done"

C12_FailureIsolation ==
  /\ [](\A p \in Passes : probe[p] = "ok" =>
         \A k \in 0..(MaxTargets - 1) : Launched(p, k) <=> k < LaunchedUpTo(p))
  /\ [][\A id \in TaskIds : Finishes(id) =>
          /\ \A o \in TaskIds \ {id} : tasks'[o] = tasks[o]
          /\ schedPc' = schedPc /\ i' = i /\ pass' = pass /\ probe' = probe
          /\ last'.decisions =
               Decide(config, last'.health, last'.metrics).decisions
          /\ tasks'[id].decisions = 1]_vars

\* the first goroutine of pass 1 has not finished, the second has failed on
\* its health fetch and a command, and the next pass has launched again
C12_Witness ==
  /\ tasks[<<1, 0>>].st = "running"
  /\ tasks[<<1, 1>>].st = "done" /\ tasks[<<1, 1>>].decisions = 1
  /\ pass = 2 /\ Launched(2, 0) /\ Launched(2, 1)
  /\ tasks[<<2, 0>>].st = "running" /\ tasks[<<2, 1>>].st = "running"
  /\ last.health.err = "ErrNotResponding"
  /\ \E k \in 1..Len(last.calls) : ~last.calls[k].ok /\ last.calls[k].op = "sendEmail"

\* C13: Start runs one pass at once, before the first wait on the ticker;
\* from then on a pass begins only on a tick and each tick begins exactly one
\* pass, the pass before it being over; the scheduler has no terminal
\* position: after a pass it waits on the ticker, where a tick is accepted.
C13_OnePassAtStartAndPerTick ==
  /\ [][/\ schedPc = "init" => (pass = 0 /\ pass' = 1 /\ schedPc' = "probe")
        /\ pass' # pass => (pass' = pass + 1 /\ schedPc' = "probe")
        /\ (schedPc' = "probe" /\ schedPc # "probe") =>
             (schedPc \in {"init", "idle"} /\ pass' = pass + 1)
        /\ (schedPc = "idle" /\ schedPc' # "idle") =>
             (schedPc' = "probe" /\ pass' = pass + 1)]_vars
  /\ [](schedPc \in {"init", "probe", "loop", "sleep", "idle"})
  /\ [](schedPc = "idle" => pass >= 1)
  /\ [](\A p \in Passes : p < pass => probe[p] # "none")
  /\ []((schedPc = "idle" /\ pass < MaxPasses) => ENABLED Tick)

\* the pass run at once and the pass of the first tick are both over
C13_Witness ==
  /\ pass = 2 /\ schedPc = "idle"
  /\ probe[1] = "ok" /\ probe[2] = "ok"
  /\ \A k \in 0..(NumUrls - 1) : Launched(1, k) /\ Launched(2, k)
  /\ NumUrls = MaxTargets

\* C14: a pass that passed the gate takes the pacing delay exactly once,
\* after the goroutines of all targets have been launched and before the
\* scheduler is back at the ticker, if and only if more than one target is
\* configured; with no target or one target it takes none.
AllLaunched(p) == \A k \in 0..(NumUrls - 1) : Launched(p, k)

C15_LaunchesStaggered ==
  \A p \in Passes : \A k \in 1..(MaxTargets - 1) :
    Launched(p, k) => slept[p] >= k

\* C16: nothing is retried within a cycle: one goroutine calls
\* GetHealthStatus once, GetMetrics at most once, and notify-send, gst-play
\* and sendEmail at most once each, whether or not the call failed; a
\* goroutine that has returned does not run again, so a failed call is made
\* again only by the goroutine of a later tick.
ExternalOps == {"GetHealthStatus", "GetMetrics", "notify-send", "gst-play", "sendEmail"}

C16_NoRetryWithinCycle ==
  /\ [](/\ \A op \in ExternalOps : CallCount(op) <= 1
        /\ \A k \in 1..Len(last.calls) : last.calls[k].op \in ExternalOps
        /\ Ran => CallCount("GetHealthStatus") = 1)
  /\ [][\A id \in TaskIds :
          /\ tasks[id].st = "done" => tasks'[id] = tasks[id]
          /\ tasks[id].st = "running" => tasks'[id].st \in {"running", "done"}]_vars

\* the goroutine of the second pass made each of the five calls once, the
\* failed gst-play and sendEmail included, the goroutine of the first pass
\* still running
C16_Witness ==
  /\ tasks[<<2, 0>>].st = "done" /\ tasks[<<1, 0>>].st = "running"
  /\ HealthUp /\ last.metrics.err = "nil"
  /\ Len(last.calls) = 5
  /\ \A k \in 4..5 : ~last.calls[k].ok
  /\ \A op \in ExternalOps : CallCount(op) = 1

\* C17: the desktop channel and the mail channel are independent: for a
\* decision with sendMail = true and email alerts enabled sendEmail is called
\* whether notify-send failed, gst-play failed or both succeeded; sendEmail is
\* the last call of the goroutine, so its failure is followed by no further
\* notify-send or gst-play, and the decision is the one the health and
\* metrics results give whatever the commands returned.
C17_MailIndependentOfDesktop ==
  /\ (Ran /\ Len(last.decisions) = 1 /\ last.decisions[1].sendMail
          /\ config.IsEmailAlertsEnabled) =>
       /\ CallCount("sendEmail") = 1
       /\ last.calls[Len(last.calls)].op = "sendEmail"
  /\ \A k \in 1..Len(last.calls) :
       last.calls[k].op = "sendEmail" => k = Len(last.calls)
  /\ Ran => last.decisions = Decide(config, last.health, last.metrics).decisions

\* notify-send failed, and sendEmail was called and failed
C17_Witness ==
  /\ config.IsDesktopAlertsEnabled /\ config.IsEmailAlertsEnabled
  /\ OneDecision(TRUE, TRUE)
  /\ Len(last.calls) >= 2
  /\ last.calls[Len(last.calls) - 1] = Call("notify-send", "critical", FALSE)
  /\ last.calls[Len(last.calls)] = Call("sendEmail", "", FALSE)

\* C18: a pass never waits for the goroutines it launched: given that the
\* probe returns, the scheduler is back at the ticker after every pass even
\* if no launched goroutine ever completes; an iteration of the loop can
\* launch whatever goroutines are in flight, a goroutine in flight is ended
\* by nothing but its own return, and the goroutines of one target launched
\* by different ticks can be in flight together.
C18_PassNeverWaits ==
  /\ (schedPc \in {"probe", "loop", "sleep"}) ~> (schedPc = "idle")
  /\ [](schedPc = "loop" => ENABLED Launch)
  /\ [][\A id \in TaskIds :
          (tasks[id].st = "running" /\ tasks'[id] # tasks[id]) =>
            /\ tasks'[id] = [st |-> "done", decisions |-> 1]
            /\ schedPc' = schedPc /\ pass' = pass /\ i' = i]_vars

\* both passes are over and no goroutine of either has completed
C18_Witness ==
  /\ pass = 2 /\ schedPc = "idle" /\ NumUrls = 2
  /\ \A id \in TaskIds : tasks[id].st = "running"
  /\ last = NoEval

\* C19: in every decision handed to handleAlert isAlert equals sendMail: only
\* (true, true) and (false, false) occur, whatever the configuration flags;
\* sendEmail is never called for an informational decision, and every
\* critical decision is mailed when email alerts are enabled.
C19_AlertIffMail ==
  /\ \A k \in 1..Len(last.decisions) :
       /\ last.decisions[k].isAlert = last.decisions[k].sendMail
       /\ last.decisions[k].isAlert =>
            CallCount("sendEmail") = IF config.IsEmailAlertsEnabled THEN 1 ELSE 0
       /\ ~last.decisions[k].isAlert => CallCount("sendEmail") = 0
  /\ CallCount("sendEmail") >= 1 => OneDecision(TRUE, TRUE)

\* a routine report with email alerts enabled: no mail
C19_Witness ==
  /\ config.IsEmailAlertsEnabled /\ config.IsDesktopAlertsEnabled
  /\ OneDecision(FALSE, FALSE) /\ last.decisions[1].msg = "Routine"
  /\ CallCount("notify-send") = 1 /\ CallCount("sendEmail") = 0

\* a threshold breach with email alerts enabled: mailed
C19_WitnessCritical ==
  /\ config.IsEmailAlertsEnabled
  /\ OneDecision(TRUE, TRUE) /\ last.decisions[1].msg = "Exceeded"
  /\ CallCount("sendEmail") = 1

\* C20: passes are serialized on the one scheduler loop: at most one pass is
\* at its gate, fan-out or pacing at any moment, and a pass starts its probe
\* only after the pass before it has returned, with its probe made and, if it
\* passed the gate, all its goroutines launched and its pacing delay taken;
\* goroutines of different passes may be in flight together.
Started(p) ==
  p <= pass \/ probe[p] # "none" \/ slept[p] > 0
  \/ \E k \in 0..(MaxTargets - 1) : Launched(p, k)

Returned(p) ==
  /\ probe[p] # "none"
  /\ probe[p] = "ok" =>
       (AllLaunched(p) /\ slept[p] = IF NumUrls > 1 THEN 1 ELSE 0)

C20_PassesSerialized ==
  /\ \A p \in Passes : \A q \in Passes : (p < q /\ Started(q)) => Returned(p)
  /\ \A p \in Passes : (Started(p) /\ ~Returned(p)) =>
       (p = pass /\ schedPc \in {"probe", "loop", "sleep"})
  /\ \A p \in Passes : Started(p) <=> (pass >= p)

\* the second pass is at its fan-out while a goroutine of the first pass and
\* one of the second are in flight
C20_Witness ==
  /\ pass = 2 /\ schedPc = "loop" /\ i = 1
  /\ Returned(1) /\ ~Returned(2)
  /\ tasks[<<1, 1>>].st = "running" /\ tasks[<<2, 0>>].st = "running"

====
